---- MODULE Spec2Model ----
(***************************************************************************)
(* Model of the three analysis clients of the repository                   *)
(*   src/tests/test_model.py   interactive Ollama client   (client "model") *)
(*   src/tests/test_ollama.py  one-shot Ollama client      (client "ollama")*)
(*   src/tests/test_gpt.py     one-shot Docker Model Runner (client "dmr")  *)
(* and of the response extractor extract_json_from_response.               *)
(*                                                                         *)
(* A text is a sequence of lexemes.  A lexeme is a TLA+ string standing    *)
(* for the characters it spells: "{" "}" "[" "]" ":" "," the double quote, *)
(* the whitespace " " and "\n", the markdown fence (three backquotes,     *)
(* written "<fence>" here), the preamble                                  *)
(* markers ("thinking...", "done thinking.", "we need to respond" in some  *)
(* letter cases), JSON literals ("null", numbers) and plain words.         *)
(***************************************************************************)
EXTENDS Integers, Sequences, FiniteSets, TLC

VARIABLES
    client,       \* which program runs: "model" | "ollama" | "dmr"
    argModel,     \* --model of the one-shot clients (<<>>: not given)
    preferred,    \* the preferred tuple of choose_model_interactive
    apiReply,     \* what the backend's model-listing endpoint answers
    cliOutput,    \* what the local listing command prints (or that it fails)
    tty,          \* whether stdin and stdout are terminals
    pc,           \* position of the program
    catalog,      \* models: the discovered model list
    cliAsked,     \* whether _list_models_via_cli was called
    candidates,   \* the list displayed for selection
    sel,          \* the last line read at the model prompt
    model,        \* the model the run uses
    prompt,       \* the prompt built from the post text
    fmt,          \* the output-format constraint put in the chat request
    posts,        \* chat POSTs issued since the last user input
    chatReply,    \* the reply the chat POST completed with
    content,      \* the text handed to the extractor / the reply's content
    extracted,    \* the record the extractor produced (text, via)
    failure,      \* the exception call_ollama / call_dmr ended with
    result,       \* the value call_ollama / call_dmr returned
    stdout,       \* what was written to standard output, in order
    stderr,       \* the kinds of message written to the error stream
    exitCode,     \* the process exit status (-1 while running)
    runs,         \* iterations of the interactive main loop started
    retries,      \* consecutive rejected inputs at the current prompt
    spinner,      \* position of the Spinner thread (_run)
    stop,         \* Spinner._stop, the threading.Event
    frames,       \* spinner frames written to the error stream
    num_models,        \* gauge ollama_models_loaded
    inference_count,   \* counter ollama_inference_requests_total
    inference_latency, \* observations of the latency histogram
    input_tokens,      \* counter of prompt tokens
    output_tokens,     \* counter of generated tokens
    served        \* the collector's requests so far, each with its status

vars == <<client, argModel, preferred, apiReply, cliOutput, tty, pc, catalog,
          cliAsked, candidates, sel, model, prompt, fmt, posts, chatReply,
          content, extracted, failure, result, stdout, stderr, exitCode, runs, retries,
          spinner, stop, frames, num_models, inference_count, inference_latency,
          input_tokens, output_tokens, served>>

----------------------------------------------------------------------------
(* Lexemes *)

Quote == "\""
Fence == "<fence>"
WS == {" ", "\n"}
ThinkingMarkers == {"thinking...", "Thinking...", "THINKING...", "done thinking.", "Done Thinking."}
RespondMarkers == {"we need to respond", "We Need To Respond"}

\* number lexemes and the value json.loads gives them, in tenths
NumberLexemes == {"0.0", "0.5", "0.8", "1.0", "1.5", "-0.5", "3"}
NumVal(tok) ==
    CASE tok = "0.0" -> 0
      [] tok = "0.5" -> 5
      [] tok = "0.8" -> 8
      [] tok = "1.0" -> 10
      [] tok = "1.5" -> 15
      [] tok = "-0.5" -> -5
      [] tok = "3" -> 30

At(t, i) == IF i >= 1 /\ i <= Len(t) THEN t[i] ELSE "<eof>"

\* the element of a one-element set: The({e(x) : x \in {v}}) is e(v) with v
\* computed once, as an assignment to a local computes its right side once
The(S) == CHOOSE x \in S : TRUE

----------------------------------------------------------------------------
(* json.loads: a recursive-descent recogniser that also builds the value.   *)
(* Values: [t |-> "string", s |-> lexemes], [t |-> "number", n |-> tenths], *)
(* [t |-> "null"], [t |-> "array", a |-> values], [t |-> "object", m |->    *)
(* function from key lexemes to values].                                    *)

Fail == [ok |-> FALSE, val |-> [t |-> "none"], next |-> 0]
Ok(v, n) == [ok |-> TRUE, val |-> v, next |-> n]

RECURSIVE SkipWs(_, _)
SkipWs(t, i) == IF At(t, i) \in WS THEN SkipWs(t, i + 1) ELSE i

RECURSIVE CloseQuote(_, _)
\* index of the quote closing a string whose body starts at i; 0 when the
\* string is unterminated or holds a raw control character (json is strict)
CloseQuote(t, i) ==
    IF i > Len(t) \/ t[i] = "\n" THEN 0
    ELSE IF t[i] = Quote THEN i
    ELSE CloseQuote(t, i + 1)

ParseString(t, i) ==
    LET j == CloseQuote(t, i + 1)
    IN IF At(t, i) # Quote \/ j = 0 THEN Fail
       ELSE Ok([t |-> "string", s |-> SubSeq(t, i + 1, j - 1)], j + 1)

RECURSIVE ParseValue(_, _)
RECURSIVE ParseMembers(_, _, _)
RECURSIVE ParseElements(_, _, _)

ParseMembers(t, k, m) ==
    LET key == ParseString(t, k)
        c   == SkipWs(t, key.next)
        v   == ParseValue(t, SkipWs(t, c + 1))
        d   == SkipWs(t, v.next)
        m2  == (key.val.s :> v.val) @@ m
    IN IF ~key.ok \/ At(t, c) # ":" THEN Fail
       ELSE IF ~v.ok THEN Fail
       ELSE IF At(t, d) = "}" THEN Ok([t |-> "object", m |-> m2], d + 1)
       ELSE IF At(t, d) = "," THEN ParseMembers(t, SkipWs(t, d + 1), m2)
       ELSE Fail

ParseElements(t, k, a) ==
    LET v  == ParseValue(t, k)
        d  == SkipWs(t, v.next)
        a2 == Append(a, v.val)
    IN IF ~v.ok THEN Fail
       ELSE IF At(t, d) = "]" THEN Ok([t |-> "array", a |-> a2], d + 1)
       ELSE IF At(t, d) = "," THEN ParseElements(t, SkipWs(t, d + 1), a2)
       ELSE Fail

ParseValue(t, i) ==
    LET c == At(t, i)
    IN CASE c = Quote -> ParseString(t, i)
         [] c = "{" -> LET k == SkipWs(t, i + 1)
                       IN IF At(t, k) = "}"
                          THEN Ok([t |-> "object", m |-> <<>>], k + 1)
                          ELSE ParseMembers(t, k, <<>>)
         [] c = "[" -> LET k == SkipWs(t, i + 1)
                       IN IF At(t, k) = "]"
                          THEN Ok([t |-> "array", a |-> <<>>], k + 1)
                          ELSE ParseElements(t, k, <<>>)
         [] c = "null" -> Ok([t |-> "null"], i + 1)
         [] c \in NumberLexemes -> Ok([t |-> "number", n |-> NumVal(c)], i + 1)
         [] OTHER -> Fail

\* json.loads(s): one value, whitespace allowed around it, nothing else
json_loads(t) ==
    LET r == ParseValue(t, SkipWs(t, 1))
    IN IF r.ok /\ SkipWs(t, r.next) = Len(t) + 1 THEN r ELSE Fail

Parses(t) == json_loads(t).ok

----------------------------------------------------------------------------
(* extract_json_from_response (src/tests/test_model.py)                     *)

\* str.find / str.rfind of one lexeme, 1-based; 0 stands for Python's -1
Positions(t, c) == {j \in 1..Len(t) : t[j] = c}
Least(S) == CHOOSE j \in S : \A k \in S : j <= k
Greatest(S) == CHOOSE j \in S : \A k \in S : j >= k

\* t.find(c, i - 1) in Python's 0-based terms
IndexFrom(t, c, i) ==
    LET S == {j \in Positions(t, c) : j >= i}
    IN IF S = {} THEN 0 ELSE Least(S)

find(t, c) == IndexFrom(t, c, 1)

rfind(t, c) == IF Positions(t, c) = {} THEN 0 ELSE Greatest(Positions(t, c))

IsNotThinking(c) == c \notin ThinkingMarkers

\* re.sub(r'(?is)(thinking\.\.\.|done thinking\.)', '', content)
StripThinking(t) == SelectSeq(t, IsNotThinking)

\* re.sub(r'(?is)(we need to respond.*?)(?=\{)', '', cleaned): each marker
\* that has a '{' after it is removed together with the text up to that '{'
RECURSIVE StripRespondFrom(_, _)
StripRespondFrom(t, i) ==
    LET hits == {j \in i..Len(t) : t[j] \in RespondMarkers /\ IndexFrom(t, "{", j + 1) # 0}
    IN IF hits = {} THEN SubSeq(t, i, Len(t))
       ELSE SubSeq(t, i, Least(hits) - 1)
                \o StripRespondFrom(t, IndexFrom(t, "{", Least(hits) + 1))

StripRespond(t) == StripRespondFrom(t, 1)

\* DropBeforeBrace with the slice starting one position too late
DropBeforeBraceOffByOne(t) ==
    LET start_idx == find(t, "{")
    IN IF start_idx > 1 THEN SubSeq(t, start_idx + 1, Len(t)) ELSE t

\* step 2: drop anything before the first '{' (start_idx > 0, 0-based)
DropBeforeBrace(t) ==
    LET start_idx == find(t, "{")
    IN IF start_idx > 1 THEN SubSeq(t, start_idx, Len(t)) ELSE t

\* steps 1 and 2
Cleaned(t) == DropBeforeBrace(StripRespond(StripThinking(t)))

RECURSIVE LStrip(_)
LStrip(t) == IF t # <<>> /\ Head(t) \in WS THEN LStrip(Tail(t)) ELSE t

RECURSIVE RStrip(_)
RStrip(t) ==
    IF t # <<>> /\ t[Len(t)] \in WS THEN RStrip(SubSeq(t, 1, Len(t) - 1)) ELSE t

\* the group of \s*(.*?)\s* between an opening and the next closing fence
FenceGroup(t) == RStrip(LStrip(t))

\* re.findall(r'```json\s*(.*?)\s*```', t, re.DOTALL) when withJson, and
\* re.findall(r'```\s*(.*?)\s*```', t, re.DOTALL) otherwise, scanning from i
RECURSIVE FindFences(_, _, _)
FindFences(t, withJson, i) ==
    LET opens == {j \in i..Len(t) :
                    /\ t[j] = Fence
                    /\ withJson => At(t, j + 1) = "json"
                    /\ IndexFrom(t, Fence, IF withJson THEN j + 2 ELSE j + 1) # 0}
        open  == Least(opens)
        body  == IF withJson THEN open + 2 ELSE open + 1
        close == IndexFrom(t, Fence, body)
    IN IF opens = {} THEN <<>>
       ELSE <<FenceGroup(SubSeq(t, body, close - 1))>>
                \o FindFences(t, withJson, close + 1)

\* re.findall(r'(\{.*\})', t, re.DOTALL): first '{' to last '}'
FindGreedy(t) ==
    LET first == find(t, "{")
        last  == rfind(t, "}")
    IN IF first # 0 /\ last > first THEN <<SubSeq(t, first, last)>> ELSE <<>>

\* re.findall(r'(\{.*?\})', t, re.DOTALL): each '{' to the next '}'
RECURSIVE FindNonGreedy(_, _)
FindNonGreedy(t, i) ==
    LET first == IndexFrom(t, "{", i)
        close == IF first = 0 THEN 0 ELSE IndexFrom(t, "}", first + 1)
    IN IF first = 0 \/ close = 0 THEN <<>>
       ELSE <<SubSeq(t, first, close)>> \o FindNonGreedy(t, close + 1)

\* step 4: the matches of the four patterns, in the order they are tried
Tag(via, cands) == [k \in 1..Len(cands) |-> [text |-> cands[k], via |-> via]]

PatternCandidates(t) ==
    Tag("fence_json", FindFences(t, TRUE, 1))
        \o Tag("fence", FindFences(t, FALSE, 1))
        \o Tag("greedy", FindGreedy(t))
        \o Tag("non_greedy", FindNonGreedy(t, 1))

\* step 5: the substring between the first '{' and the last '}'
SliceCandidates(t) ==
    LET first == find(t, "{")
        last  == rfind(t, "}")
    IN IF first # 0 /\ last # 0 /\ last > first
       THEN <<[text |-> SubSeq(t, first, last), via |-> "slice"]>>
       ELSE <<>>

\* FirstParsing without the json.loads check of the candidate
FirstParsingUnchecked(cands, default) ==
    IF cands = <<>> THEN default ELSE Head(cands)

\* FirstParsing returning the last candidate json.loads accepts
LastParsing(cands, default) ==
    LET good == {k \in 1..Len(cands) : Parses(cands[k].text)}
    IN IF good = {} THEN default ELSE cands[Greatest(good)]

\* the first candidate json.loads accepts, else the given default
FirstParsing(cands, default) ==
    LET good == {k \in 1..Len(cands) : Parses(cands[k].text)}
    IN IF good = {} THEN default ELSE cands[Least(good)]

\* ExtractFrom with steps 4 and 5 left out: direct parse or give up
ExtractFromDirectOnly(cleaned) ==
    IF Parses(cleaned) THEN [text |-> cleaned, via |-> "direct"]
    ELSE [text |-> cleaned, via |-> "raw"]

\* steps 3 to 6 on the cleaned text: the text returned and the step that
\* returned it ("raw": step 6, gave up and returned the cleaned text unparsed)
ExtractFrom(cleaned) ==
    IF Parses(cleaned) THEN [text |-> cleaned, via |-> "direct"]
    ELSE The({FirstParsing(cands, [text |-> cleaned, via |-> "raw"]) :
                cands \in {PatternCandidates(cleaned) \o SliceCandidates(cleaned)}})

\* the whole function
ExtractRec(t) == The({ExtractFrom(cleaned) : cleaned \in {Cleaned(t)}})

extract_json_from_response(t) == ExtractRec(t).text

----------------------------------------------------------------------------
(* _analysis_schema (src/tests/test_model.py): the JSON Schema as a         *)
(* predicate on parsed values                                               *)

TopKeys == {<<"industry">>, <<"company">>, <<"symbol">>, <<"direction">>,
            <<"confidence">>, <<"reason">>, <<"scores">>}
ScoreKeys == {<<"impact_size">>, <<"time_proximity">>, <<"clarity">>,
              <<"volatility_sensitivity">>, <<"duration">>}
Directions == {<<"buy">>, <<"sell">>, <<"hold">>}

IsString(v) == v.t = "string"
\* {"type": "number", "minimum": 0.0, "maximum": 1.0}
IsUnitNumber(v) == v.t = "number" /\ v.n >= 0 /\ v.n <= 10

ScoresValid(v) ==
    /\ v.t = "object"
    /\ DOMAIN v.m = ScoreKeys          \* required + additionalProperties: False
    /\ \A k \in ScoreKeys : IsUnitNumber(v.m[k])

SchemaValid(v) ==
    /\ v.t = "object"
    /\ DOMAIN v.m = TopKeys            \* required + additionalProperties: False
    /\ \A k \in {<<"industry">>, <<"company">>, <<"symbol">>, <<"reason">>} :
           IsString(v.m[k])
    /\ IsString(v.m[<<"direction">>]) /\ v.m[<<"direction">>].s \in Directions
    /\ IsUnitNumber(v.m[<<"confidence">>])
    /\ ScoresValid(v.m[<<"scores">>])

----------------------------------------------------------------------------
(* Response texts the backend can produce *)

Str(w) == <<Quote>> \o w \o <<Quote>>
Member(k, v) == Str(<<k>>) \o <<":">> \o v

\* {"a":3}    {"a":{"b":3}}    {"a":3,}
ObjFlat == <<"{">> \o Member("a", <<"3">>) \o <<"}">>
ObjNested == <<"{">> \o Member("a", <<"{">> \o Member("b", <<"3">>) \o <<"}">>) \o <<"}">>
ObjTrailingComma == <<"{">> \o Member("a", <<"3">>) \o <<",", "}">>

ScoresText(n) ==
    <<"{">> \o Member("impact_size", <<n>>) \o <<",">>
            \o Member("time_proximity", <<n>>) \o <<",">>
            \o Member("clarity", <<n>>) \o <<",">>
            \o Member("volatility_sensitivity", <<n>>) \o <<",">>
            \o Member("duration", <<n>>) \o <<"}">>

\* an analysis object as the prompt asks for it, with the given reason
\* string, direction word, confidence and score lexemes
AnalysisText(reason, dir, conf, score) ==
    <<"{">> \o Member("industry", Str(<<"Tech">>)) \o <<",">>
            \o Member("company", Str(<<"X">>)) \o <<",">>
            \o Member("symbol", Str(<<"X">>)) \o <<",">>
            \o Member("direction", Str(<<dir>>)) \o <<",">>
            \o Member("confidence", <<conf>>) \o <<",">>
            \o Member("reason", Str(reason)) \o <<",">>
            \o Member("scores", ScoresText(score)) \o <<"}">>

PlainAnalysis == AnalysisText(<<"r">>, "buy", "0.8", "0.5")

\* schema-valid objects; the later ones carry marker text inside "reason"
ValidObjects ==
    { PlainAnalysis,
      AnalysisText(<<"still", " ", "thinking...">>, "hold", "0.0", "0.0"),
      AnalysisText(<<"Done Thinking.">>, "sell", "1.0", "1.0"),
      AnalysisText(<<"We Need To Respond", " ", "fast">>, "buy", "0.5", "0.8") }

\* texts without any '{'
BraceFree ==
    { <<>>, <<"3">>, <<"null">>, Str(<<"x">>), <<"[", "3", "]">>, <<"hello">>,
      <<"thinking...">>, <<"\n">> }

Bodies == ValidObjects \cup {ObjFlat, ObjNested, ObjTrailingComma} \cup BraceFree

MaxNoise == 2

SeqsUpTo(S, n) == UNION {[1..k -> S] : k \in 0..n}

Preambles ==
    { <<>>, <<" ">>, <<"thinking...">>, <<"THINKING...", "\n">>,
      <<"We Need To Respond", " ">> }
Noises == SeqsUpTo({"{", "}", "x", Fence}, MaxNoise)
Tails == {<<>>, <<"}">>, <<"x">>, <<"\n", "x", "}">>}

NoWrap(b) == b
JsonFence(b) == <<Fence, "json", "\n">> \o b \o <<"\n", Fence>>
BareFence(b) == <<Fence, "\n">> \o b \o <<"\n", Fence>>
Wrapped(b) == {NoWrap(b), JsonFence(b), BareFence(b)}

Contents ==
    { p \o n \o w \o t : p \in Preambles, n \in Noises,
                         w \in UNION {Wrapped(b) : b \in Bodies}, t \in Tails }

----------------------------------------------------------------------------
(* Model identifiers, as lexeme sequences *)

Llama31 == <<"llama3.1", ":", "8b">>
Qwen25 == <<"qwen2.5", ":", "7b">>
DeepseekR1 == <<"deepseek", "-", "r1", ":", "7b">>
DeepSeekV2 == <<"DeepSeek", "-", "V2">>
Llama3 == <<"llama3">>
GptOss == <<"ai", "/", "gpt-oss", ":", "20b">>
Qwen3 == <<"ai", "/", "qwen3", ":", "8B-Q4_K_M">>

\* every identifier of the model, in the order Python's sorted() gives
\* strings (code points: upper case before lower case)
NameOrder == <<DeepSeekV2, GptOss, Qwen3, DeepseekR1, Llama3, Llama31, Qwen25>>

Range(q) == {q[i] : i \in 1..Len(q)}

\* str.lower() of one lexeme
LowerLexeme(c) ==
    CASE c = "DeepSeek" -> "deepseek"
      [] c = "V2" -> "v2"
      [] c = "8B-Q4_K_M" -> "8b-q4_k_m"
      [] c = "Q" -> "q"
      [] c = "NAME" -> "name"
      [] OTHER -> c

lower(t) == [i \in 1..Len(t) |-> LowerLexeme(t[i])]

\* sorted(set(names))
SortedSet(names) ==
    LET IsListed(n) == n \in Range(names)
    IN SelectSeq(NameOrder, IsListed)

----------------------------------------------------------------------------
(* Model discovery: _list_models_via_api, _list_models_via_cli *)

Clients == {"model", "ollama", "dmr"}
OneShot == {"ollama", "dmr"}

\* an entry of a listing body: its "id" and "name" (<<>>: absent or empty)
Item(id, name) == [id |-> id, name |-> name]

\* a reply of the listing endpoint: the transport raised, or a status with a
\* body that is not JSON ("malformed"), JSON null ("null"), JSON but no
\* object ("other"), or an object ("dict") with its "data" and "models"
\* lists (<<>>: key absent or list empty)
ListRaise == [kind |-> "raise", status |-> 0, shape |-> "none", data |-> <<>>, models |-> <<>>]
ListHttp(s, sh, d, m) == [kind |-> "http", status |-> s, shape |-> sh, data |-> d, models |-> m]

\* RaiseForStatus raising for every status other than 200
RaiseForStatusNon200(status) == status # 200

\* r.raise_for_status(): raises for the 4xx and 5xx statuses only
RaiseForStatus(status) == status >= 400 /\ status < 600

RECURSIVE NamesOf(_, _)
\* the loop "for it in items: name = ...; if name: names.append(name)"
NamesOf(items, useId) ==
    IF items = <<>> THEN <<>>
    ELSE LET it   == Head(items)
             name == IF useId /\ it.id # <<>> THEN it.id ELSE it.name
         IN (IF name # <<>> THEN <<name>> ELSE <<>>) \o NamesOf(Tail(items), useId)

\* test_model.py / test_ollama.py: GET /api/tags
ListViaApiOllama(r) ==
    IF r.kind = "raise" \/ RaiseForStatus(r.status) THEN <<>>
    ELSE IF r.shape \in {"malformed", "other"} THEN <<>>
    ELSE SortedSet(NamesOf(r.models, FALSE))   \* "null": r.json() or {}

\* test_gpt.py: GET /models
ListViaApiDmr(r) ==
    IF r.kind = "raise" \/ RaiseForStatus(r.status) THEN <<>>
    ELSE IF r.shape \in {"malformed", "other", "null"} THEN <<>>
    ELSE SortedSet(NamesOf(IF r.data # <<>> THEN r.data ELSE r.models, TRUE))

list_models_via_api(c, r) ==
    IF c = "dmr" THEN ListViaApiDmr(r) ELSE ListViaApiOllama(r)

\* the listing command: it fails (missing, timeout, non-zero exit), or
\* prints lines, each a sequence of whitespace-separated tokens
CliRaise == [kind |-> "raise", lines |-> <<>>]
CliLines(ls) == [kind |-> "ok", lines |-> ls]

LooksLikeModel(c, tok) ==
    IF c = "dmr" THEN "/" \in Range(tok) \/ ":" \in Range(tok)
    ELSE ":" \in Range(tok)

RECURSIVE FirstTokens(_, _)
FirstTokens(c, lines) ==
    IF lines = <<>> THEN <<>>
    ELSE LET tok == Head(lines)
         IN (IF tok # <<>> /\ LooksLikeModel(c, tok[1]) THEN <<tok[1]>> ELSE <<>>)
                \o FirstTokens(c, Tail(lines))

list_models_via_cli(c, o) ==
    IF o.kind = "raise" THEN <<>> ELSE SortedSet(FirstTokens(c, o.lines))

\* models = _list_models_via_api(api_base) or _list_models_via_cli()
CliConsulted(c, r) == list_models_via_api(c, r) = <<>>
get_installed_models(c, r, o) ==
    IF CliConsulted(c, r) THEN list_models_via_cli(c, o)
    ELSE list_models_via_api(c, r)

----------------------------------------------------------------------------
(* Model selection: choose_model_interactive *)

DEFAULT_MODEL == Llama3
PreferredOllama == <<Llama31, Qwen25>>
PreferredDmr == <<GptOss, Qwen3>>

\* Candidates without the reordering
CandidatesCatalogOrder(models, pref_list) == models

\* pref = [m for m in preferred if m in models];
\* rest = [m for m in models if m not in pref]; candidates = pref + rest
Candidates(models, pref_list) ==
    LET InModels(m) == m \in Range(models)
        pref == SelectSeq(pref_list, InModels)
        NotPref(m) == m \notin Range(pref)
    IN pref \o SelectSeq(models, NotPref)

\* a line typed at the model prompt, or end of input
SelBlank == [kind |-> "blank", n |-> 0, s |-> <<>>]
SelEof == [kind |-> "eof", n |-> 0, s |-> <<>>]
SelDigit(k) == [kind |-> "digit", n |-> k, s |-> <<>>]
SelText(t) == [kind |-> "text", n |-> 0, s |-> t]
NoSel == [kind |-> "none", n |-> 0, s |-> <<>>]

\* test_ollama.py / test_gpt.py: the model a line selects, <<>> if rejected
PickOneShot(cands, line) ==
    CASE line.kind = "blank" -> cands[1]
      [] line.kind = "digit" /\ 1 <= line.n /\ line.n <= Len(cands) -> cands[line.n]
      [] OTHER -> <<>>

\* test_model.py: the model a line selects, <<>> if rejected
PickInteractive(models, line) ==
    CASE line.kind = "blank" ->
             IF DEFAULT_MODEL \in Range(models) THEN DEFAULT_MODEL ELSE models[1]
      [] line.kind = "digit" /\ 1 <= line.n /\ line.n <= Len(models) -> models[line.n]
      [] line.kind = "text" /\ lower(line.s) \in Range(models) -> lower(line.s)
      [] OTHER -> <<>>

----------------------------------------------------------------------------
(* Request building and the chat call: call_ollama, call_dmr *)

\* GptLike without the lower-casing of the model name
GptLikeCaseSensitive(m) == \E k \in {"gpt-oss", "deepseek", "r1"} : k \in Range(m)

\* test_model.py: any(k in ml for k in ("gpt-oss", "deepseek", "r1"))
GptLike(m) == \E k \in {"gpt-oss", "deepseek", "r1"} : k \in Range(lower(m))

\* the "format" / "response_format" member of the payload
RequestFormat(c, m) ==
    CASE c = "model" -> IF GptLike(m) THEN "json" ELSE "schema"
      [] c = "ollama" -> "schema"
      [] c = "dmr" -> "json_object"

\* text[:n] keeping one element too many
TakeOneMore(t, n) == SubSeq(t, 1, IF Len(t) < n + 1 THEN Len(t) ELSE n + 1)

\* text[:n]
Take(t, n) == SubSeq(t, 1, IF Len(t) < n THEN Len(t) ELSE n)

\* a reply to the chat POST: the transport raised (connection error,
\* timeout), or a status with the body text and, for a body that is JSON
\* ("content"), the content string found under the backend's path
ChatRaise == [kind |-> "raise", status |-> 0, text |-> <<>>, shape |-> "none", content |-> <<>>]
ChatHttp(s, t, sh, c) == [kind |-> "http", status |-> s, text |-> t, shape |-> sh, content |-> c]

NoReply == [kind |-> "none", status |-> 0, text |-> <<>>, shape |-> "none", content |-> <<>>]
NoFailure == [kind |-> "none", status |-> 0, text |-> <<>>]
NoResult == [t |-> "none"]
NoExtract == [text |-> <<>>, via |-> "none"]

HttpErrorPrefix == 400
NonJsonPrefixModel == 200
NonJsonPrefix == 400

\* what a call returns or raises once the POST has completed with `reply`:
\* the content read, the extractor's record, the exception, the value
Returned(c, x, v) == [content |-> c, extracted |-> x, failure |-> NoFailure, result |-> v]
Raised(c, x, f) == [content |-> c, extracted |-> x, failure |-> f, result |-> NoResult]

\* test_model.py call_ollama, from "json_text = extract_json_from_response"
LastDitch(c, x) ==
    LET json_text == x.text
        first     == find(json_text, "{")
        last      == rfind(json_text, "}")
        candidate == SubSeq(json_text, first, last)
    IN IF Parses(json_text) THEN Returned(c, x, json_loads(json_text).val)
       ELSE IF first # 0 /\ last # 0 /\ last > first /\ Parses(candidate)
            THEN Returned(c, x, json_loads(candidate).val)
       ELSE Raised(c, x, [kind |-> "nonjson", status |-> 200,
                          text |-> Take(json_text, NonJsonPrefixModel)])

ParseExtracted(c) == The({LastDitch(c, x) : x \in {ExtractRec(c)}})

\* test_ollama.py call_ollama / test_gpt.py call_dmr: json.loads(content)
ParseDirect(c) ==
    IF Parses(c) THEN Returned(c, NoExtract, json_loads(c).val)
    ELSE Raised(c, NoExtract, [kind |-> "nonjson", status |-> 200,
                               text |-> Take(c, NonJsonPrefix)])

\* CallOutcome failing on the 4xx and 5xx statuses only
CallOutcomeErrorStatusOnly(c, reply) ==
    IF reply.kind = "raise"
    THEN Raised(<<>>, NoExtract, [kind |-> "transport", status |-> 0, text |-> <<>>])
    ELSE IF RaiseForStatus(reply.status)
    THEN Raised(<<>>, NoExtract, [kind |-> "http", status |-> reply.status,
                                  text |-> Take(reply.text, HttpErrorPrefix)])
    ELSE IF reply.shape = "malformed"
    THEN Raised(<<>>, NoExtract, [kind |-> "decode", status |-> 200, text |-> <<>>])
    ELSE IF c = "model" THEN ParseExtracted(reply.content)
    ELSE ParseDirect(reply.content)

CallOutcome(c, reply) ==
    IF reply.kind = "raise"
    THEN Raised(<<>>, NoExtract, [kind |-> "transport", status |-> 0, text |-> <<>>])
    ELSE IF reply.status # 200
    THEN Raised(<<>>, NoExtract, [kind |-> "http", status |-> reply.status,
                                  text |-> Take(reply.text, HttpErrorPrefix)])
    ELSE IF reply.shape = "malformed"
    THEN Raised(<<>>, NoExtract, [kind |-> "decode", status |-> 200, text |-> <<>>])
    ELSE IF c = "model" THEN ParseExtracted(reply.content)
    ELSE ParseDirect(reply.content)

----------------------------------------------------------------------------
(* build_prompt *)

Marker == "## POST TEXT IS HERE ##"
PROMPT_TMPL == <<"<instructions>", Marker, "\n">>

\* strip that trims nothing
StripNothing(t) == t

strip(t) == RStrip(LStrip(t))

RECURSIVE ReplaceAll(_, _, _)
ReplaceAll(t, old, new) ==
    IF t = <<>> THEN <<>>
    ELSE (IF Head(t) = old THEN new ELSE <<Head(t)>>) \o ReplaceAll(Tail(t), old, new)

build_prompt(post_text) == ReplaceAll(PROMPT_TMPL, Marker, strip(post_text))

----------------------------------------------------------------------------
(* The environment: what the user, the files and the backend can supply *)

MaxItems == 3       \* entries in a listing body
MaxLines == 2       \* lines of listing-command output
MaxRuns == 1        \* times the interactive main loop may start over
MaxRetries == 1     \* rejected inputs in a row at one prompt
MaxPick == 2        \* largest number typed at the model prompt

ItemChoices ==
    {Item(<<>>, Qwen25), Item(<<>>, Llama31), Item(Qwen3, Llama3),
     Item(GptOss, DeepseekR1), Item(<<>>, <<>>)}
ItemLists == SeqsUpTo(ItemChoices, MaxItems)

ListStatuses == {200, 203, 404, 500}

\* every body under the success statuses, one listing under the others
ListReplies ==
    {ListRaise}
      \cup {ListHttp(st, sh, <<>>, <<>>) : st \in ListStatuses, sh \in {"malformed", "null", "other"}}
      \cup {ListHttp(st, "dict", <<>>, m) : st \in {200, 203}, m \in ItemLists}
      \cup {ListHttp(st, "dict", <<>>, <<Item(<<>>, Qwen25)>>) : st \in ListStatuses}
      \cup {ListHttp(200, "dict", d, <<Item(<<>>, DeepseekR1)>>) : d \in ItemLists}

Header == <<<<"NAME">>, <<"ID">>>>
LineChoices == {<<>>, Header, <<Llama31, <<"x">>>>, <<GptOss>>}
CliOutputs == {CliRaise} \cup {CliLines(ls) : ls \in SeqsUpTo(LineChoices, MaxLines)}

\* the output of the listing command can matter only when the command is
\* run; when it is not, a failing and a listing output stand for all
CliOutputsFor(c, r) ==
    IF CliConsulted(c, r) THEN CliOutputs ELSE {CliRaise, CliLines(<<<<GptOss>>>>)}

\* the smaller environment of the end-to-end runs
RunListReplies ==
    { ListRaise,
      ListHttp(200, "dict", <<>>, <<Item(<<>>, Qwen25), Item(<<>>, DeepseekR1), Item(<<>>, Llama31)>>),
      ListHttp(200, "dict", <<>>, <<Item(<<>>, Llama3), Item(<<>>, DeepSeekV2)>>),
      ListHttp(200, "dict", <<Item(Qwen3, <<>>), Item(GptOss, <<>>)>>, <<>>) }
RunCliOutputs == {CliRaise, CliLines(<<Header, <<Llama31, <<"x">>>>>>)}

ArgModels == {<<>>, Qwen25, DeepseekR1}

PreferredOf(c) ==
    CASE c = "ollama" -> {PreferredOllama, <<Qwen25, Llama31>>}
      [] c = "dmr" -> {PreferredDmr, <<Qwen3, GptOss>>}
      [] c = "model" -> {<<>>}

SelInputs ==
    {SelBlank, SelEof, SelText(<<"Q">>), SelText(Llama3)}
        \cup {SelDigit(k) : k \in 0..MaxPick}

\* the post file: unreadable, or its text
PostFiles ==
    { [kind |-> "unreadable", text |-> <<>>],
      [kind |-> "ok", text |-> <<>>],
      [kind |-> "ok", text |-> <<" ", "\n">>],
      [kind |-> "ok", text |-> <<" ", "news", "\n">>] }
\* the answer at the file prompt: end of input, a path that does not exist,
\* or a path to one of the post files
FileInputs == {[kind |-> "eof", text |-> <<>>], [kind |-> "missing", text |-> <<>>]} \cup PostFiles

ErrorBody == <<"internal", " ", "error">>
\* a response longer than every diagnostic prefix
LongJunk == [i \in 1..(NonJsonPrefix + 1) |-> "x"]
ChatContents ==
    { PlainAnalysis, ObjFlat, <<"3">>, <<>>, LongJunk,
      <<"thinking...", "\n">> \o PlainAnalysis,
      AnalysisText(<<"r">>, "buy", "1.5", "0.5"),
      <<"answer", " ">> \o ObjTrailingComma }
ChatReplies ==
    {ChatRaise, ChatHttp(500, ErrorBody, "malformed", <<>>),
     ChatHttp(201, PlainAnalysis, "content", PlainAnalysis),
     ChatHttp(200, <<"x">>, "malformed", <<>>)}
      \cup {ChatHttp(200, c, "content", c) : c \in ChatContents}

----------------------------------------------------------------------------
(* The programs, step by step *)

\* input(prompt): the prompt goes to the terminal's error stream when stdin
\* and stdout are terminals, and to standard output otherwise
PromptOut == IF tty THEN stdout ELSE Append(stdout, "prompt")
PromptErr == IF tty THEN stderr \cup {"prompt"} ELSE stderr

Exit(code) == pc' = "exit" /\ exitCode' = code

envvars == <<client, argModel, preferred, apiReply, cliOutput, tty>>
callvars == <<fmt, posts, chatReply, content, extracted, failure, result>>
discvars == <<catalog, cliAsked, candidates>>
spinvars == <<spinner, stop, frames>>
metricvars == <<num_models, inference_count, inference_latency, input_tokens,
                output_tokens, served>>

\* test_ollama.py / test_gpt.py main: read the file, build the prompt
ReadPost ==
    /\ pc = "start" /\ client \in OneShot
    /\ \E f \in PostFiles :
         IF f.kind = "unreadable"
         THEN /\ stderr' = stderr \cup {"Error reading file"}
              /\ Exit(1)
              /\ UNCHANGED <<prompt, model>>
         ELSE IF strip(f.text) = <<>>
         THEN /\ stderr' = stderr \cup {"Input file is empty."}
              /\ Exit(1)
              /\ UNCHANGED <<prompt, model>>
         ELSE /\ prompt' = build_prompt(f.text)
              /\ model' = argModel
              /\ pc' = IF argModel # <<>> THEN "call" ELSE "discover"
              /\ UNCHANGED <<stderr, exitCode>>
    /\ UNCHANGED <<envvars, spinvars, metricvars, callvars, discvars, sel, stdout, runs, retries>>

\* test_ollama.py / test_gpt.py choose_model_interactive, up to the prompt
DiscoverOneShot ==
    /\ pc = "discover" /\ client \in OneShot
    /\ catalog' = get_installed_models(client, apiReply, cliOutput)
    /\ cliAsked' = CliConsulted(client, apiReply)
    /\ IF catalog' = <<>>
       THEN /\ stderr' = stderr \cup {"No models found"}
            /\ Exit(1)
            /\ UNCHANGED candidates
       ELSE /\ candidates' = Candidates(catalog', preferred)
            /\ stderr' = stderr \cup {"menu"}
            /\ pc' = "choose"
            /\ UNCHANGED exitCode
    /\ UNCHANGED <<envvars, spinvars, metricvars, callvars, sel, model, prompt, stdout, runs, retries>>

\* test_model.py main: the banner and get_installed_models, once
DiscoverInteractive ==
    /\ pc = "start" /\ client = "model"
    /\ catalog' = get_installed_models(client, apiReply, cliOutput)
    /\ cliAsked' = CliConsulted(client, apiReply)
    /\ stderr' = stderr \cup {"banner"}
    /\ pc' = "menu"
    /\ UNCHANGED <<envvars, spinvars, metricvars, callvars, candidates, sel, model, prompt, stdout,
                   exitCode, runs, retries>>

\* test_model.py: the top of the main loop (the locals of the finished
\* iteration are dead) and choose_model_interactive, up to the prompt
ShowMenu ==
    /\ pc = "menu"
    /\ sel' = NoSel /\ model' = <<>> /\ prompt' = <<>> /\ fmt' = "none"
    /\ chatReply' = NoReply /\ content' = <<>> /\ extracted' = NoExtract
    /\ failure' = NoFailure /\ result' = NoResult
    /\ IF catalog = <<>>
       THEN /\ stderr' = stderr \cup {"No Ollama models found."}
            /\ Exit(1)
            /\ UNCHANGED candidates
       ELSE /\ candidates' = catalog
            /\ stderr' = stderr \cup {"menu"}
            /\ pc' = "choose"
            /\ UNCHANGED exitCode
    /\ UNCHANGED <<envvars, spinvars, metricvars, catalog, cliAsked, posts, stdout, runs, retries>>

\* one pass of the selection loop of test_ollama.py / test_gpt.py
ChooseOneShot ==
    /\ pc = "choose" /\ client \in OneShot
    /\ \E line \in SelInputs :
         /\ sel' = line
         /\ IF line.kind = "eof"
            THEN /\ stdout' = PromptOut
                 /\ stderr' = PromptErr \cup {"Traceback: EOFError"}
                 /\ Exit(1)
                 /\ UNCHANGED <<model, retries>>
            ELSE IF PickOneShot(candidates, line) # <<>>
            THEN /\ stdout' = PromptOut
                 /\ stderr' = PromptErr
                 /\ model' = PickOneShot(candidates, line)
                 /\ retries' = 0
                 /\ pc' = "call"
                 /\ UNCHANGED exitCode
            ELSE /\ retries < MaxRetries
                 /\ stdout' = PromptOut
                 /\ stderr' = PromptErr \cup {"Invalid selection. Try again."}
                 /\ retries' = retries + 1
                 /\ UNCHANGED <<model, pc, exitCode>>
    /\ UNCHANGED <<envvars, spinvars, metricvars, callvars, discvars, prompt, runs>>

\* one pass of the selection loop of test_model.py
ChooseInteractive ==
    /\ pc = "choose" /\ client = "model"
    /\ \E line \in SelInputs :
         /\ sel' = line
         /\ IF line.kind = "eof"
            THEN /\ stdout' = PromptOut
                 /\ stderr' = PromptErr \cup {"Operation cancelled."}
                 /\ Exit(0)
                 /\ UNCHANGED <<model, retries>>
            ELSE IF line.kind = "text" /\ lower(line.s) = <<"q">>
            THEN /\ stdout' = PromptOut
                 /\ stderr' = PromptErr \cup {"Exiting."}
                 /\ Exit(0)
                 /\ UNCHANGED <<model, retries>>
            ELSE IF PickInteractive(candidates, line) # <<>>
            THEN /\ stdout' = PromptOut
                 /\ stderr' = PromptErr
                 /\ model' = PickInteractive(candidates, line)
                 /\ retries' = 0
                 /\ pc' = "file"
                 /\ UNCHANGED exitCode
            ELSE /\ retries < MaxRetries
                 /\ stdout' = PromptOut
                 /\ stderr' = PromptErr \cup {"Invalid selection. Try again."}
                 /\ retries' = retries + 1
                 /\ UNCHANGED <<model, pc, exitCode>>
    /\ UNCHANGED <<envvars, spinvars, metricvars, callvars, discvars, prompt, runs>>

\* LoopBack retrying the call instead of starting over
LoopBackToCall == runs < MaxRuns /\ runs' = runs + 1 /\ pc' = "call"

\* `continue` / another run: back to the top of the main loop of test_model.py
LoopBack == runs < MaxRuns /\ runs' = runs + 1 /\ pc' = "menu"

\* test_model.py main: get_input_file, read the file, build the prompt
AskFile ==
    /\ pc = "file"
    /\ \E f \in FileInputs :
         CASE f.kind = "eof" ->
                /\ stdout' = PromptOut
                /\ stderr' = PromptErr \cup {"Operation cancelled."}
                /\ Exit(0)
                /\ UNCHANGED <<prompt, runs, retries>>
           [] f.kind = "missing" ->
                /\ retries < MaxRetries
                /\ stdout' = PromptOut
                /\ stderr' = PromptErr \cup {"File not found. Please try again."}
                /\ retries' = retries + 1
                /\ UNCHANGED <<prompt, runs, pc, exitCode>>
           [] f.kind = "unreadable" ->
                /\ stdout' = PromptOut
                /\ stderr' = PromptErr \cup {"Error reading file"}
                /\ LoopBack
                /\ retries' = 0
                /\ UNCHANGED <<prompt, exitCode>>
           [] f.kind = "ok" /\ strip(f.text) = <<>> ->
                /\ stdout' = PromptOut
                /\ stderr' = PromptErr \cup {"Input file is empty."}
                /\ LoopBack
                /\ retries' = 0
                /\ UNCHANGED <<prompt, exitCode>>
           [] f.kind = "ok" /\ strip(f.text) # <<>> ->
                /\ stdout' = PromptOut
                /\ stderr' = PromptErr \cup {"Running analysis"}
                /\ prompt' = build_prompt(f.text)
                /\ pc' = "call"
                /\ retries' = 0
                /\ UNCHANGED <<runs, exitCode>>
    /\ UNCHANGED <<envvars, spinvars, metricvars, callvars, discvars, sel, model>>

\* call_ollama / call_dmr: build the payload and issue the POST
SendChat ==
    /\ pc = "call"
    /\ fmt' = RequestFormat(client, model)
    /\ posts' = posts + 1
    /\ chatReply' = NoReply /\ content' = <<>> /\ extracted' = NoExtract
    /\ failure' = NoFailure /\ result' = NoResult
    /\ pc' = "waiting"
    /\ UNCHANGED <<envvars, spinvars, metricvars, discvars, sel, model, prompt, stdout, stderr,
                   exitCode, runs, retries>>

\* call_ollama / call_dmr: the POST completes; the rest of the function
ReceiveChat ==
    /\ pc = "waiting"
    /\ \E reply \in ChatReplies : \E o \in {CallOutcome(client, reply)} :
            /\ chatReply' = reply
            /\ content' = o.content
            /\ extracted' = o.extracted
            /\ failure' = o.failure
            /\ result' = o.result
            /\ pc' = IF o.failure.kind = "none" THEN "returned" ELSE "raised"
    /\ stderr' = stderr \cup {"spinner cleared"}
    /\ UNCHANGED <<envvars, spinvars, metricvars, discvars, fmt, posts, sel, model, prompt, stdout,
                   exitCode, runs, retries>>

\* main: print(json.dumps(result, ...))
PrintResult ==
    /\ pc = "returned"
    /\ stdout' = Append(stdout, "json")
    /\ IF client \in OneShot
       THEN Exit(0)
       ELSE pc' = "again" /\ UNCHANGED exitCode
    /\ UNCHANGED <<envvars, spinvars, metricvars, callvars, discvars, sel, model, prompt, stderr,
                   runs, retries>>

\* main: except Exception as e
ReportError ==
    /\ pc = "raised"
    /\ IF client \in OneShot
       THEN /\ stderr' = stderr \cup {"Error calling model", "Hints"}
            /\ Exit(2)
            /\ UNCHANGED runs
       ELSE /\ stderr' = stderr \cup {"Error calling model"}
            /\ LoopBack
            /\ UNCHANGED exitCode
    /\ UNCHANGED <<envvars, spinvars, metricvars, callvars, discvars, sel, model, prompt, stdout, retries>>

\* test_model.py main: "Run another analysis? (y/n)"
Again ==
    /\ pc = "again"
    /\ \E ans \in {"y", "n", "eof"} :
         /\ stdout' = PromptOut
         /\ CASE ans = "y" ->
                   /\ stderr' = PromptErr
                   /\ LoopBack
                   /\ UNCHANGED exitCode
              [] ans = "n" ->
                   /\ stderr' = PromptErr \cup {"Exiting."}
                   /\ Exit(0)
                   /\ UNCHANGED runs
              [] ans = "eof" ->
                   /\ stderr' = PromptErr \cup {"Traceback: EOFError"}
                   /\ Exit(1)
                   /\ UNCHANGED runs
    /\ UNCHANGED <<envvars, spinvars, metricvars, callvars, discvars, sel, model, prompt, retries>>

\* Spinner.__init__: the event clear, the thread created but not started
SpinnerIdle == spinner = "new" /\ stop = FALSE /\ frames = 0

\* metrics_collector.py at import: every metric at zero
CollectorIdle ==
    /\ num_models = 0 /\ inference_count = 0 /\ inference_latency = 0
    /\ input_tokens = 0 /\ output_tokens = 0
    /\ served = <<>>

Idle ==
    /\ SpinnerIdle /\ CollectorIdle
    /\ catalog = <<>> /\ cliAsked = FALSE /\ candidates = <<>>
    /\ sel = NoSel /\ model = <<>> /\ prompt = <<>>
    /\ fmt = "none" /\ posts = 0
    /\ chatReply = NoReply /\ content = <<>> /\ extracted = NoExtract
    /\ failure = NoFailure /\ result = NoResult
    /\ stdout = <<>> /\ stderr = {}
    /\ exitCode = -1 /\ runs = 0 /\ retries = 0

Init ==
    /\ client \in Clients
    /\ argModel \in (IF client \in OneShot THEN ArgModels ELSE {<<>>})
    /\ preferred \in PreferredOf(client)
    /\ apiReply \in RunListReplies
    /\ cliOutput \in RunCliOutputs
    /\ tty \in BOOLEAN
    /\ pc = "start"
    /\ Idle

Next ==
    \/ ReadPost \/ DiscoverOneShot \/ DiscoverInteractive \/ ShowMenu
    \/ ChooseOneShot \/ ChooseInteractive \/ AskFile
    \/ SendChat \/ ReceiveChat \/ PrintResult \/ ReportError \/ Again

Spec == Init /\ [][Next]_vars

----------------------------------------------------------------------------
(* Discovery and selection alone, over every listing the bounds allow *)

InitDiscover ==
    /\ client \in Clients
    /\ argModel = <<>>
    /\ preferred \in PreferredOf(client)
    /\ apiReply \in ListReplies
    /\ cliOutput \in CliOutputsFor(client, apiReply)
    /\ tty = FALSE
    /\ pc = IF client \in OneShot THEN "discover" ELSE "start"
    /\ Idle

NextDiscover ==
    \/ DiscoverOneShot \/ DiscoverInteractive \/ ShowMenu
    \/ ChooseOneShot \/ ChooseInteractive

SpecDiscover == InitDiscover /\ [][NextDiscover]_vars

----------------------------------------------------------------------------
(* The extractor applied to one response text *)

InitExtract ==
    /\ client = "model" /\ argModel = <<>> /\ preferred = <<>>
    /\ apiReply = ListRaise /\ cliOutput = CliRaise /\ tty = FALSE
    /\ pc = "extract"
    /\ SpinnerIdle /\ CollectorIdle
    /\ catalog = <<>> /\ cliAsked = FALSE /\ candidates = <<>>
    /\ sel = NoSel /\ model = <<>> /\ prompt = <<>>
    /\ fmt = "none" /\ posts = 0
    /\ chatReply = NoReply
    /\ content \in Contents
    /\ extracted = NoExtract
    /\ failure = NoFailure /\ result = NoResult
    /\ stdout = <<>> /\ stderr = {}
    /\ exitCode = -1 /\ runs = 0 /\ retries = 0

RunExtract ==
    /\ pc = "extract"
    /\ extracted' = ExtractRec(content)
    /\ pc' = "extracted"
    /\ UNCHANGED <<envvars, spinvars, metricvars, discvars, sel, model, prompt, fmt, posts, chatReply,
                   content, failure, result, stdout, stderr, exitCode, runs,
                   retries>>

\* test_model.py call_ollama on the extractor's text: json.loads, then the
\* last-ditch slice, then the non-JSON error
RunLastDitch ==
    /\ pc = "extracted"
    /\ \E o \in {LastDitch(content, extracted)} :
          failure' = o.failure /\ result' = o.result
    /\ pc' = "parsed"
    /\ UNCHANGED <<envvars, spinvars, metricvars, discvars, sel, model, prompt, fmt, posts, chatReply,
                   content, extracted, stdout, stderr, exitCode, runs, retries>>

NextExtract == RunExtract \/ RunLastDitch

SpecExtract == InitExtract /\ [][NextExtract]_vars

----------------------------------------------------------------------------
(* Claims about the extractor, checked under SpecExtract *)

Extracted == pc = "extracted"
HasMarker(t) == \E i \in 1..Len(t) : t[i] \in ThinkingMarkers \cup RespondMarkers
HasBrace(t) == find(t, "{") # 0
IsSuffix(b, t) == Len(b) <= Len(t) /\ SubSeq(t, Len(t) - Len(b) + 1, Len(t)) = b
Occurs(b, t) == \E i \in 1..(Len(t) - Len(b) + 1) : SubSeq(t, i, i + Len(b) - 1) = b
\* texts of valid JSON objects among the response bodies
ObjectTexts == ValidObjects \cup {ObjFlat, ObjNested}
\* t is 'thinking...', then some noise, then the object text b
ThinkingNoiseThen(b, t) == t # <<>> /\ t[1] = "thinking..." /\ IsSuffix(b, Tail(t))
NoiseBefore(b, t) == SubSeq(t, 2, Len(t) - Len(b))
AllCandidatesFail(t) ==
    /\ ~Parses(Cleaned(t))
    /\ \A k \in 1..Len(PatternCandidates(Cleaned(t))) :
           ~Parses(PatternCandidates(Cleaned(t))[k].text)
    /\ \A k \in 1..Len(SliceCandidates(Cleaned(t))) :
           ~Parses(SliceCandidates(Cleaned(t))[k].text)

\* C2 (as claimed): every text the extractor returns parses as JSON.
C2_EveryReturnParses == Extracted => Parses(extracted.text)

\* C2 (amended): a returned text either parses as JSON, or it is the cleaned
\* text returned by the give-up step after the direct parse, every pattern
\* match and the brace slice all failed to parse.
C2_ParsedOrGaveUp ==
    Extracted =>
        \/ Parses(extracted.text)
        \/ /\ extracted.via = "raw"
           /\ extracted.text = Cleaned(content)
           /\ AllCandidatesFail(content)

C2_Witness == Extracted /\ extracted.via = "raw" /\ HasBrace(content)

\* C3 (as claimed): a text with no '{' at all ends in an extraction failure:
\* nothing is parsed out of it and returned.
C3_BraceFreeFails ==
    (Extracted /\ ~HasBrace(content)) =>
        (extracted.via = "raw" /\ ~Parses(extracted.text))

\* C4 (as claimed): a text that is already a schema-valid JSON object,
\* possibly after leading whitespace, is returned character for character.
C4_ValidObjectUnchanged ==
    (Extracted /\ Parses(content) /\ SchemaValid(json_loads(content).val))
        => extracted.text = content

\* C5 (as claimed): 'thinking...' + any noise + a valid JSON object yields
\* exactly the object (stated here for objects free of marker text).
C5_AnyNoiseRecovered ==
    Extracted =>
        \A b \in ObjectTexts :
            (ThinkingNoiseThen(b, content) /\ ~HasMarker(b)) => extracted.text = b

\* C5 (amended): 'thinking...' + noise + a valid JSON object yields exactly
\* the object when the noise holds no '{' and the object no marker text.
C5_BraceFreeNoiseRecovered ==
    Extracted =>
        \A b \in ObjectTexts :
            ( /\ ThinkingNoiseThen(b, content)
              /\ ~HasBrace(NoiseBefore(b, content))
              /\ ~HasMarker(b) ) => extracted.text = b

C5_Witness ==
    /\ Extracted
    /\ ThinkingNoiseThen(PlainAnalysis, content)
    /\ NoiseBefore(PlainAnalysis, content) = <<"}", "x">>
    /\ extracted.text = PlainAnalysis

\* C6 (as claimed): a valid JSON object inside a json fence, with prose
\* before and after the fence, yields exactly the object (stated here for
\* objects free of marker text).
C6_FencedRecovered ==
    Extracted =>
        \A b \in ObjectTexts :
            (Occurs(JsonFence(b), content) /\ ~HasMarker(b)) => extracted.text = b

----------------------------------------------------------------------------
(* Claims about discovery and selection, checked under SpecDiscover *)

Discovered == pc \notin {"start", "discover", "extract", "extracted"}
PosIn(q, x) == CHOOSE i \in 1..Len(q) : q[i] = x
StrictlySorted(q) ==
    \A i, j \in 1..Len(q) : i < j => PosIn(NameOrder, q[i]) < PosIn(NameOrder, q[j])

\* the names a listing body holds for client c
ListedNames(c, r) ==
    LET items == IF c = "dmr" /\ r.data # <<>> THEN r.data ELSE r.models
    IN {IF c = "dmr" /\ items[i].id # <<>> THEN items[i].id ELSE items[i].name :
            i \in 1..Len(items)} \ {<<>>}
\* the names the listing command prints for client c
PrintedNames(c, o) ==
    {o.lines[i][1] : i \in {j \in 1..Len(o.lines) :
        /\ o.lines[j] # <<>>
        /\ \/ ":" \in Range(o.lines[j][1])
           \/ c = "dmr" /\ "/" \in Range(o.lines[j][1])}}
BodyUnusable(c, r) ==
    r.kind = "raise" \/ r.shape \in {"malformed", "other"} \/ (c = "dmr" /\ r.shape = "null")

\* C8 (as claimed): the list shown is the preferred entries of the catalog
\* in preferred order, then the other entries in catalog order, and a blank
\* line selects the first entry of that list.
PreferredFirst(cands, cat, pref) ==
    /\ Len(cands) = Len(cat) /\ Range(cands) = Range(cat)
    /\ \A i, j \in 1..Len(cands) :
         i < j =>
           IF cands[i] \in Range(pref) /\ cands[j] \in Range(pref)
           THEN PosIn(pref, cands[i]) < PosIn(pref, cands[j])
           ELSE IF cands[i] \notin Range(pref) /\ cands[j] \notin Range(pref)
           THEN PosIn(cat, cands[i]) < PosIn(cat, cands[j])
           ELSE cands[i] \in Range(pref)
C8_PreferredFirstBlankFirst ==
    candidates # <<>> =>
        /\ PreferredFirst(candidates, catalog, preferred)
        /\ sel.kind = "blank" => model = candidates[1]

\* C8 (amended): the one-shot clients show the preferred entries first and a
\* blank line selects the first entry shown; the interactive client shows
\* the catalog as it is and a blank line selects llama3 when the catalog
\* holds it, else the first entry.
C8_PerClientDefault ==
    candidates # <<>> =>
        IF client \in OneShot
        THEN /\ PreferredFirst(candidates, catalog, preferred)
             /\ sel.kind = "blank" => model = candidates[1]
        ELSE /\ candidates = catalog
             /\ sel.kind = "blank" =>
                  model = IF Llama3 \in Range(catalog) THEN Llama3 ELSE catalog[1]

C8_Witness ==
    /\ client = "ollama" /\ preferred = <<Qwen25, Llama31>>
    /\ catalog = <<Llama3, Llama31, Qwen25>>
    /\ candidates = <<Qwen25, Llama31, Llama3>>
    /\ sel.kind = "blank" /\ model = Qwen25

\* C9 (as claimed): the listing command is consulted exactly when the
\* listing query failed (transport error, any status other than 200, a body
\* that is malformed or of the wrong shape) or listed no name.
C9_FallbackOnNon200 ==
    Discovered =>
        (cliAsked <=> \/ BodyUnusable(client, apiReply)
                      \/ apiReply.status # 200
                      \/ ListedNames(client, apiReply) = {})

\* C9 (amended): the listing command is consulted exactly when the listing
\* query failed (transport error, a 4xx or 5xx status, a body that is
\* malformed or of the wrong shape) or listed no name; the catalog holds the
\* names of the source used, without duplicates and sorted.
C9_FallbackOnErrorStatus ==
    Discovered =>
        /\ cliAsked <=> \/ BodyUnusable(client, apiReply)
                        \/ apiReply.status \in 400..599
                        \/ ListedNames(client, apiReply) = {}
        /\ Range(catalog) = IF ~cliAsked THEN ListedNames(client, apiReply)
                            ELSE IF cliOutput.kind = "raise" THEN {}
                            ELSE PrintedNames(client, cliOutput)
        /\ StrictlySorted(catalog)

C9_Witness ==
    /\ Discovered /\ apiReply.status = 203 /\ ~cliAsked
    /\ Len(catalog) >= 2 /\ cliOutput.kind = "ok"

----------------------------------------------------------------------------
(* Claims about the call, checked under Spec *)

Sent == fmt # "none"
\* the identifiers holding "gpt-oss", "deepseek" or "r1" in some letter case
LooseNames == {DeepseekR1, DeepSeekV2, GptOss}
BackendFailed ==
    chatReply.kind = "raise" \/ (chatReply.kind = "http" /\ chatReply.status # 200)
IsPrefix(p, t) == Len(p) <= Len(t) /\ SubSeq(t, 1, Len(p)) = p

\* C1 (as claimed): a value the client returns is valid against the
\* analysis schema.
C1_ReturnedIsSchemaValid == pc = "returned" => SchemaValid(result)

\* C7 (as claimed): both Ollama clients send the loose JSON flag for a
\* reasoning-family model and the schema for any other; the Docker Model
\* Runner client always sends its flag.
C7_LooseOnEveryOllamaClient ==
    Sent => fmt = IF client = "dmr" THEN "json_object"
                  ELSE IF model \in LooseNames THEN "json" ELSE "schema"

\* C7 (amended): only the interactive Ollama client sends the loose JSON
\* flag for a reasoning-family model; the one-shot Ollama client sends the
\* schema for every model, the Docker Model Runner client always its flag.
C7_LooseOnInteractiveOnly ==
    Sent => fmt = CASE client = "dmr" -> "json_object"
                    [] client = "ollama" -> "schema"
                    [] client = "model" ->
                         IF model \in LooseNames THEN "json" ELSE "schema"

C7_Witness == Sent /\ client = "model" /\ model = DeepSeekV2 /\ fmt = "json"

\* C10 (as claimed): after a non-200 status or a transport error the
\* extractor has not run, there is no result, and once the failure is
\* handled the process has exited with code 2.
C10_BackendFailureExits2 ==
    BackendFailed =>
        /\ extracted = NoExtract /\ result = NoResult
        /\ pc # "raised" => (pc = "exit" /\ exitCode = 2)

\* C10 (amended): after a non-200 status or a transport error the extractor
\* has not run and there is no result; the failure carries the status and a
\* prefix of the body of at most 400 characters, or neither for a transport
\* error; the one-shot clients then exit with code 2 while the interactive
\* client goes back to its menu; nothing is written to standard output by
\* the failing call or by its handler.
C10_FailureState ==
    BackendFailed =>
        /\ extracted = NoExtract /\ result = NoResult
        /\ IF chatReply.kind = "raise"
           THEN failure.kind = "transport" /\ failure.text = <<>>
           ELSE /\ failure.kind = "http" /\ failure.status = chatReply.status
                /\ IsPrefix(failure.text, chatReply.text)
                /\ Len(failure.text) = Len(chatReply.text) \/ Len(failure.text) = 400
        /\ pc # "raised" =>
             IF client \in OneShot THEN pc = "exit" /\ exitCode = 2
             ELSE pc = "menu" /\ exitCode = -1
C10_FailureStep == BackendFailed' => stdout' = stdout
C10_BackendFailureReported == []C10_FailureState /\ [][C10_FailureStep]_vars

C10_Witness ==
    /\ BackendFailed /\ chatReply.status = 500 /\ failure.text = ErrorBody
    /\ client = "ollama" /\ pc = "exit" /\ exitCode = 2

----------------------------------------------------------------------------
(* Claims about the course of a run, checked under Spec *)

AskedModel == sel.kind \in {"blank", "digit", "text"}
Discovery == stderr \cap {"menu", "No models found", "No Ollama models found.", "banner"}
\* the post's text inside a built prompt
PostPart(p) == SubSeq(p, 2, Len(p) - 1)

\* C11: there is no automatic retry. A POST is issued only when no failure
\* of an earlier call is pending, and in the interactive client only after
\* the user has chosen a model and a file since the top of the loop; a
\* one-shot run issues at most one POST, the interactive client at most one
\* for each time around its loop.
C11_NoAutomaticRetry ==
    /\ posts <= runs + 1
    /\ client \in OneShot => posts <= 1
    /\ pc = "call" =>
         /\ failure = NoFailure /\ chatReply = NoReply
         /\ prompt # <<>> /\ model # <<>>
         /\ client = "model" => AskedModel
    /\ pc \in {"raised", "returned"} => posts >= 1

C11_Witness ==
    /\ client = "model" /\ pc = "waiting" /\ posts = 2 /\ runs = 1
    /\ "Error calling model" \in stderr

\* C12 (as claimed): blank input fails before any discovery, selection or
\* call, and no model is resolved before the prompt is built.
C12_PromptBeforeModel ==
    /\ "Input file is empty." \in stderr =>
         (Discovery = {} /\ model = <<>> /\ posts = 0 /\ pc = "exit")
    /\ model # <<>> => prompt # <<>>

\* C12 (amended): in the one-shot clients blank input exits with code 1
\* before any discovery, selection or call, and no model is resolved before
\* the prompt is built; the interactive client discovers the models and has
\* one chosen before it reads the input, so there the prompt is never built
\* before a model is resolved, and blank input comes after the menu. A
\* prompt that is built holds the post's text trimmed, never blank.
C12_OrderPerClient ==
    /\ prompt # <<>> =>
         /\ PostPart(prompt) # <<>>
         /\ Head(PostPart(prompt)) \notin WS
         /\ PostPart(prompt)[Len(PostPart(prompt))] \notin WS
    /\ pc \in {"waiting", "returned", "raised"} => (prompt # <<>> /\ model # <<>>)
    /\ IF client \in OneShot
       THEN /\ "Input file is empty." \in stderr =>
                 /\ Discovery = {} /\ model = <<>> /\ posts = 0
                 /\ pc = "exit" /\ exitCode = 1
            /\ model # <<>> => prompt # <<>>
            /\ Discovery # {} => prompt # <<>>
       ELSE /\ prompt # <<>> => (model # <<>> /\ "menu" \in stderr)
            /\ "Input file is empty." \in stderr => "menu" \in stderr

C12_Witness ==
    /\ client = "dmr" /\ "Input file is empty." \in stderr
    /\ pc = "exit" /\ exitCode = 1 /\ Discovery = {}

Shorter(a, b) == IF a < b THEN a ELSE b

C14_OnlyJsonOnStdout == \A i \in 1..Len(stdout) : stdout[i] = "json"

----------------------------------------------------------------------------
(* Claims about the order of the extraction strategies and the last-ditch
   slice, checked under SpecExtract *)

StrategyOrder == <<"direct", "fence_json", "fence", "greedy", "non_greedy", "slice">>
Rank(via) == CHOOSE k \in 1..Len(StrategyOrder) : StrategyOrder[k] = via
\* every candidate text of the cleaned response, in the order it is tried
AllCandidates(t) ==
    <<[text |-> Cleaned(t), via |-> "direct"]>>
        \o PatternCandidates(Cleaned(t)) \o SliceCandidates(Cleaned(t))
Parsed == pc = "parsed"
SliceGuard(t) == find(t, "{") # 0 /\ rfind(t, "}") > find(t, "{")

\* C16: extraction is first-success-wins over the fixed order direct parse,
\* json fence, bare fence, greedy span, non-greedy span (left to right),
\* brace slice: whenever some candidate parses, the text returned is a
\* parsing candidate, no candidate of an earlier strategy parses, and no
\* earlier match of the same strategy parses.
C16_FirstSuccessWins ==
    Extracted =>
        \A cands \in {AllCandidates(content)} :
            (\E j \in 1..Len(cands) : Parses(cands[j].text)) =>
                /\ extracted.via # "raw" /\ Parses(extracted.text)
                /\ \E k \in 1..Len(cands) :
                      /\ cands[k] = extracted
                      /\ \A j \in 1..Len(cands) :
                            Parses(cands[j].text) =>
                                /\ Rank(cands[j].via) >= Rank(extracted.via)
                                /\ cands[j].via = extracted.via => j >= k

C16_Witness ==
    /\ Extracted /\ extracted.via = "non_greedy"
    /\ FindGreedy(Cleaned(content)) # <<>>
    /\ ~Parses(FindGreedy(Cleaned(content))[1])

\* C17: the last-ditch slice of call_ollama never succeeds: call_ollama
\* returns a value exactly when the extractor's returned text parses, and
\* when that text does not parse its first-'{'-to-last-'}' slice does not
\* parse either and the non-JSON error is raised.
C17_LastDitchNeverSucceeds ==
    Parsed =>
        /\ failure = NoFailure <=> Parses(extracted.text)
        /\ ~Parses(extracted.text) =>
              /\ failure.kind = "nonjson" /\ result = NoResult
              /\ SliceGuard(extracted.text) =>
                    ~Parses(SubSeq(extracted.text, find(extracted.text, "{"),
                                   rfind(extracted.text, "}")))

C17_Witness ==
    /\ Parsed /\ ~Parses(extracted.text) /\ SliceGuard(extracted.text)
    /\ failure.kind = "nonjson"

----------------------------------------------------------------------------
(* The call block with the Spinner thread running beside it *)

MaxFrames == 2

\* Thread.join(): returns once the thread has ended
JoinedAtOnce(t) == TRUE

Joined(t) == t = "done"

InitSpinner ==
    /\ client \in Clients
    /\ argModel = <<>> /\ preferred = <<>>
    /\ apiReply = ListRaise /\ cliOutput = CliRaise /\ tty = FALSE
    /\ pc = "with"
    /\ SpinnerIdle /\ CollectorIdle
    /\ catalog = <<>> /\ cliAsked = FALSE /\ candidates = <<>>
    /\ sel = NoSel
    /\ model \in {Qwen25, GptOss}
    /\ prompt = PROMPT_TMPL
    /\ fmt = RequestFormat(client, model)
    /\ posts = 0
    /\ chatReply = NoReply /\ content = <<>> /\ extracted = NoExtract
    /\ failure = NoFailure /\ result = NoResult
    /\ stdout = <<>> /\ stderr = {}
    /\ exitCode = -1 /\ runs = 0 /\ retries = 0

\* Spinner.__enter__: self._t.start()
SpinnerEnter ==
    /\ pc = "with" /\ spinner = "new"
    /\ spinner' = "check"
    /\ pc' = "post"
    /\ UNCHANGED <<envvars, metricvars, discvars, callvars, sel, model, prompt,
                   stop, frames, stdout, stderr, exitCode, runs, retries>>

\* the body of the with block: requests.post returns a response or raises
SpinnerPost ==
    /\ pc = "post"
    /\ \E reply \in ChatReplies : chatReply' = reply
    /\ posts' = posts + 1
    /\ pc' = "exit"
    /\ UNCHANGED <<envvars, metricvars, discvars, spinvars, fmt, content,
                   extracted, failure, result, sel, model, prompt, stdout,
                   stderr, exitCode, runs, retries>>

\* Spinner.__exit__: self._stop.set()
SpinnerExitSet ==
    /\ pc = "exit"
    /\ stop' = TRUE
    /\ pc' = "join"
    /\ UNCHANGED <<envvars, metricvars, discvars, callvars, sel, model, prompt,
                   spinner, frames, stdout, stderr, exitCode, runs, retries>>

\* Spinner.__exit__: self._t.join()
SpinnerExitJoin ==
    /\ pc = "join"
    /\ Joined(spinner)
    /\ pc' = "clear"
    /\ UNCHANGED <<envvars, metricvars, discvars, callvars, spinvars, sel,
                   model, prompt, stdout, stderr, exitCode, runs, retries>>

\* Spinner.__exit__: the line is blanked on the error stream
SpinnerExitClear ==
    /\ pc = "clear"
    /\ stderr' = stderr \cup {"spinner cleared"}
    /\ pc' = "rest"
    /\ UNCHANGED <<envvars, metricvars, discvars, callvars, spinvars, sel,
                   model, prompt, stdout, exitCode, runs, retries>>

\* call_ollama / call_dmr after the with block
RestOfCall ==
    /\ pc = "rest"
    /\ \E o \in {CallOutcome(client, chatReply)} :
            /\ content' = o.content
            /\ extracted' = o.extracted
            /\ failure' = o.failure
            /\ result' = o.result
            /\ pc' = IF o.failure.kind = "none" THEN "returned" ELSE "raised"
    /\ UNCHANGED <<envvars, metricvars, discvars, spinvars, fmt, posts,
                   chatReply, sel, model, prompt, stdout, stderr, exitCode,
                   runs, retries>>

\* Spinner._run: if self._stop.is_set(): break
SpinnerRunCheck ==
    /\ spinner = "check"
    /\ IF stop THEN spinner' = "done"
       ELSE frames < MaxFrames /\ spinner' = "write"
    /\ UNCHANGED <<envvars, metricvars, discvars, callvars, pc, sel, model,
                   prompt, stop, frames, stdout, stderr, exitCode, runs,
                   retries>>

\* Spinner._run: sys.stderr.write of one frame
SpinnerRunWrite ==
    /\ spinner = "write"
    /\ stderr' = stderr \cup {"spinner frame"}
    /\ frames' = frames + 1
    /\ spinner' = "sleep"
    /\ UNCHANGED <<envvars, metricvars, discvars, callvars, pc, sel, model,
                   prompt, stop, stdout, exitCode, runs, retries>>

\* Spinner._run: time.sleep(0.1)
SpinnerRunSleep ==
    /\ spinner = "sleep"
    /\ spinner' = "check"
    /\ UNCHANGED <<envvars, metricvars, discvars, callvars, pc, sel, model,
                   prompt, stop, frames, stdout, stderr, exitCode, runs,
                   retries>>

SpinnerExit == SpinnerExitSet \/ SpinnerExitJoin \/ SpinnerExitClear

SpinnerThread == SpinnerRunCheck \/ SpinnerRunWrite \/ SpinnerRunSleep

NextSpinner ==
    \/ SpinnerEnter \/ SpinnerPost \/ SpinnerExitSet \/ SpinnerExitJoin
    \/ SpinnerExitClear \/ RestOfCall
    \/ SpinnerRunCheck \/ SpinnerRunWrite \/ SpinnerRunSleep

\* the thread is scheduled (sleep returns) and __exit__ runs to its end
SpecSpinner ==
    InitSpinner /\ [][NextSpinner]_vars
        /\ WF_vars(SpinnerThread) /\ WF_vars(SpinnerExit)

----------------------------------------------------------------------------
(* Claims about the spinner, checked under SpecSpinner *)

AfterBlock == pc \in {"rest", "returned", "raised"}
CallEnded == pc \in {"returned", "raised"}

C15_State ==
    /\ stop <=> pc \in {"join", "clear", "rest", "returned", "raised"}
    /\ stop => chatReply # NoReply
    /\ pc \in {"clear", "rest", "returned", "raised"} => spinner = "done"
    /\ CallEnded =>
         /\ [content |-> content, extracted |-> extracted,
             failure |-> failure, result |-> result]
                = CallOutcome(client, chatReply)
         /\ pc = "returned" <=> failure = NoFailure

C15_Step ==
    /\ stop => stop'
    /\ frames' # frames => (~AfterBlock /\ ~AfterBlock')
    /\ spinner' # spinner =>
         \/ spinner = "new" /\ pc = "with"
         \/ UNCHANGED <<envvars, discvars, callvars, pc, sel, model, prompt,
                        stop, stdout, exitCode, runs, retries>>

\* C15: in every interleaving the spinner thread and the pipeline share only
\* the stop signal: it is set once the POST has returned or raised and never
\* cleared, the thread then ends and is joined before the pipeline goes on,
\* no frame is written after the block has exited, a step of the thread
\* changes no variable of the pipeline, and the call ends with exactly the
\* outcome the reply determines without the spinner.
C15_SpinnerSharesOnlyStop ==
    /\ []C15_State
    /\ [][C15_Step]_vars
    /\ (stop ~> spinner = "done")
    /\ (pc = "exit" ~> pc = "rest")

C15_Witness ==
    /\ client = "model" /\ pc = "raised" /\ chatReply = ChatRaise
    /\ frames >= 1 /\ spinner = "done" /\ stop

----------------------------------------------------------------------------
(* The metrics collector (llm-metrics/metrics_collector.py) *)

MaxRequests == 2
MaxTokens == 2
MaxModels == 2

TokenKeys == {"prompt_tokens", "generated_tokens"}
TokenCounts == {-1, 0, MaxTokens}

\* request bodies of POST /track_inference: text that is not JSON, the JSON
\* null, and JSON objects holding any of the two keys
Malformed == [kind |-> "malformed", keys |-> {}, prompt_tokens |-> 0, generated_tokens |-> 0]
Null == [kind |-> "null", keys |-> {}, prompt_tokens |-> 0, generated_tokens |-> 0]
Dicts ==
    {d \in [kind : {"dict"}, keys : SUBSET TokenKeys,
            prompt_tokens : TokenCounts, generated_tokens : TokenCounts] :
        \A k \in TokenKeys \ d.keys : d[k] = 0}
RequestBodies == {Malformed, Null} \cup Dicts

\* what GET http://ollama:11434/api/ps answers: no connection, an object
\* with n models, an object without the key, an object whose models is null
PsReplies ==
    {[kind |-> "raise", n |-> 0], [kind |-> "nokey", n |-> 0],
     [kind |-> "null", n |-> 0]}
        \cup {[kind |-> "models", n |-> n] : n \in 0..MaxModels}

\* data.get(key, 0)
Get(data, key) == IF key \in data.keys THEN data[key] ELSE 0

\* metrics: len(res.get("models", [])), 0 on any exception
ModelsLoaded(reply) == IF reply.kind = "models" THEN reply.n ELSE 0

\* track_inference: the HTTP status the request ends with
TrackStatus(body) ==
    IF body.kind = "malformed" THEN 400
    ELSE IF body.kind = "null" THEN 500
    ELSE IF Get(body, "prompt_tokens") < 0 THEN 500
    ELSE IF Get(body, "generated_tokens") < 0 THEN 500
    ELSE 200

InitMetrics ==
    /\ client = "model" /\ argModel = <<>> /\ preferred = <<>>
    /\ apiReply = ListRaise /\ cliOutput = CliRaise /\ tty = FALSE
    /\ pc = "serving"
    /\ Idle

\* POST /track_inference
track_inference ==
    /\ Len(served) < MaxRequests
    /\ \E body \in RequestBodies :
        /\ inference_latency' = inference_latency + 1
        /\ inference_count' =
             IF body.kind = "malformed" THEN inference_count
             ELSE inference_count + 1
        /\ input_tokens' =
             IF body.kind = "dict" /\ Get(body, "prompt_tokens") >= 0
             THEN input_tokens + Get(body, "prompt_tokens")
             ELSE input_tokens
        /\ output_tokens' =
             IF TrackStatus(body) = 200
             THEN output_tokens + Get(body, "generated_tokens")
             ELSE output_tokens
        /\ served' = Append(served, [path |-> "/track_inference", body |-> body,
                                     status |-> TrackStatus(body)])
    /\ UNCHANGED <<envvars, spinvars, discvars, callvars, pc, sel, model,
                   prompt, stdout, stderr, exitCode, runs, retries, num_models>>

\* GET /metrics
metrics ==
    /\ Len(served) < MaxRequests
    /\ \E reply \in PsReplies : num_models' = ModelsLoaded(reply)
    /\ served' = Append(served, [path |-> "/metrics", body |-> Null,
                                 status |-> 200])
    /\ UNCHANGED <<envvars, spinvars, discvars, callvars, pc, sel, model,
                   prompt, stdout, stderr, exitCode, runs, retries,
                   inference_count, inference_latency, input_tokens,
                   output_tokens>>

NextMetrics == track_inference \/ metrics

SpecMetrics == InitMetrics /\ [][NextMetrics]_vars

----------------------------------------------------------------------------
(* Claims about the metrics collector, checked under SpecMetrics *)

Completed == {i \in 1..Len(served) :
                served[i].path = "/track_inference" /\ served[i].status = 200}
RECURSIVE SumOver(_, _)
SumOver(I, key) ==
    IF I = {} THEN 0
    ELSE LET i == CHOOSE j \in I : TRUE
         IN Get(served[i].body, key) + SumOver(I \ {i}, key)

\* C18 (as claimed): after any sequence of requests the inference counter is
\* the number of /track_inference requests that completed successfully and
\* the token counters are the sums of prompt_tokens and generated_tokens over
\* exactly those requests; failed requests and /metrics change none of them.
C18_CountersMatchCompleted ==
    /\ inference_count = Cardinality(Completed)
    /\ input_tokens = SumOver(Completed, "prompt_tokens")
    /\ output_tokens = SumOver(Completed, "generated_tokens")

====
